---- MODULE Spec2Model ----
(***************************************************************************)
(* State-machine model of player-core (crates/player-core/src): the        *)
(* PlayerCore controller of lib.rs with the components it owns, the        *)
(* Demuxer of demuxer/mod.rs, the two decoders of decoder/mod.rs, the      *)
(* FrameBufferManager of frame_buffer.rs and the SubtitleTrack and         *)
(* SubtitleParser of subtitle/mod.rs.                                      *)
(*                                                                         *)
(* Every handler is a pure operator from the component (and its            *)
(* arguments) to a record holding the handler's return value and the       *)
(* component after the call; an action applies one handler to the          *)
(* controller.  Option<T> is a sequence of length at most one, Vec<u8> a   *)
(* sequence of 0..255, a str or String the sequence of its characters,     *)
(* Result<T> a record with an ok field.                                    *)
(***************************************************************************)
EXTENDS Integers, Sequences, FiniteSets, TLC

VARIABLES
    player,      \* the PlayerCore struct: state, demuxer, decoders, frame_buffer
    lastOp,      \* the handler called last ("new" after construction)
    lastArg,     \* its argument: the data of load, the timestamp of seek, the frame of push
    result,      \* TRUE when it returned Ok (or Some), FALSE when Err (or None)
    stateTrace,  \* the values it assigned to self.state, in order
    calls,       \* the component methods it called, in order
    pre,         \* the PlayerCore struct as it was when the handler was called
    mgr,         \* a FrameBufferManager built by FrameBufferManager::new(config)
    mgrOp,       \* the method called last on it ("new" after construction)
    mgrArg,      \* the frame passed to it, if any
    mgrRet,      \* what it returned: <<"Ok">> or <<"Err">> of push, the Option of pop and peek
    mgrPre,      \* the manager as it was when the method was called
    accepted,    \* per queue, the frames push accepted since the last clear, in order
    popped,      \* per queue, the frames pop returned since the last clear, in order
    dmx,         \* a Demuxer built by Demuxer::new()
    dmxOp,       \* the method called last on it ("new" after construction)
    dmxArg,      \* its argument: the data of init, the timestamp of seek
    dmxRet,      \* what it returned: the ok flag and the error kind of its Result
    dmxPre,      \* the demuxer as it was when the method was called
    decoders,    \* a VideoDecoder and an AudioDecoder built by default()
    decOp,       \* the method called last on one of them ("new" after construction)
    decArg,      \* its arguments: the codec of init, the data and pts_ms of decode
    decRet,      \* what it returned: the ok flag, the error text and the frames of its Result
    decPre,      \* the two decoders as they were when the method was called
    track,       \* a SubtitleTrack built by SubtitleTrack::new or returned by parse
    subOp,       \* the method called last ("new" after construction)
    subArg,      \* its arguments: the cue of add_cue, the timestamp of cues_at, the text
                 \* and format of parse, the string of parse_srt_timestamp
    subRet,      \* what it returned: the cues of cues_at, the Result of parse, the
                 \* Option of parse_srt_timestamp
    subPre       \* the track as it was when the method was called

ctlVars == <<player, lastOp, lastArg, result, stateTrace, calls, pre>>

mgrVars == <<mgr, mgrOp, mgrArg, mgrRet, mgrPre, accepted, popped>>

dmxVars == <<dmx, dmxOp, dmxArg, dmxRet, dmxPre>>

decVars == <<decoders, decOp, decArg, decRet, decPre>>

subVars == <<track, subOp, subArg, subRet, subPre>>

vars == <<player, lastOp, lastArg, result, stateTrace, calls, pre,
          mgr, mgrOp, mgrArg, mgrRet, mgrPre, accepted, popped,
          dmx, dmxOp, dmxArg, dmxRet, dmxPre,
          decoders, decOp, decArg, decRet, decPre,
          track, subOp, subArg, subRet, subPre>>

----------------------------------------------------------------------------
(* Bounds of the exploration and the inputs drawn by the actions. *)

\* frames a queue holds at most in the explored states
MaxFrames == 2

\* stream entries the demuxer holds at most in the explored states
MaxStreams == 2

\* frames the two queues of the stand-alone manager are configured to hold
\* together, and so the largest capacity of one queue
MaxCapacity == 2

\* frames a queue of the stand-alone manager accepts at most between two clears
MaxPushes == 3

\* handler calls looked ahead from a state when asking what is reachable from it
MaxSteps == 4

\* cues a track holds at most in the explored states
MaxCues == 2

\* presentation timestamps of the frames pushed
FramePts == {0, 33}

\* targets passed to seek
SeekTargets == {0, 1000}

None == <<>>

Some(x) == <<x>>

\* b"ftyp"
FtypTag == <<102, 116, 121, 112>>

\* [0x1A, 0x45, 0xDF, 0xA3]
EbmlMagic == <<26, 69, 223, 163>>

\* vec![] of test_demuxer_reject_empty_data
EmptyData == <<>>

\* vec![0, 1, 2, 3, 4] of test_demuxer_reject_short_data
ShortData == <<0, 1, 2, 3, 4>>

\* the minimal ftyp box of test_demuxer_detect_mp4
Mp4Data == <<0, 0, 0, 20>> \o FtypTag \o <<105, 115, 111, 109>> \o <<0, 0, 0, 0>>

\* the EBML magic of test_demuxer_detect_mkv, zero-padded to the header length
MkvData == EbmlMagic \o <<0, 0, 0, 0, 0, 0, 0, 0>>

\* 0xFF bytes as in test_demuxer_unknown_format, of the header length
UnknownData == <<255, 255, 255, 255, 255, 255, 255, 255, 255, 255, 255, 255>>

LoadInputs == {EmptyData, ShortData, Mp4Data, MkvData, UnknownData}

PlayerStates == {"Idle", "Loading", "Ready", "Playing", "Paused", "Ended", "Error"}

----------------------------------------------------------------------------
(* demuxer/mod.rs *)

\* data.len() < 12 in detect_format
MinHeaderLen == 12

Demuxer_new ==
    [format |-> None, streams |-> <<>>, data |-> <<>>, position |-> 0,
     initialized |-> FALSE]

\* detect_format with the EBML magic tested before the ftyp tag
detect_format_ebml_first(data) ==
    IF Len(data) < MinHeaderLen
    THEN [ok |-> FALSE, format |-> None, err |-> "InvalidFormat"]
    ELSE IF Len(data) >= 4 /\ SubSeq(data, 1, 4) = EbmlMagic
    THEN [ok |-> TRUE, format |-> Some("Mkv"), err |-> ""]
    ELSE IF Len(data) >= 8 /\ SubSeq(data, 5, 8) = FtypTag
    THEN [ok |-> TRUE, format |-> Some("Mp4"), err |-> ""]
    ELSE [ok |-> TRUE, format |-> Some("Unknown"), err |-> ""]

\* detect_format without the test of the EBML magic
detect_format_ftyp_only(data) ==
    IF Len(data) < MinHeaderLen
    THEN [ok |-> FALSE, format |-> None, err |-> "InvalidFormat"]
    ELSE IF Len(data) >= 8 /\ SubSeq(data, 5, 8) = FtypTag
    THEN [ok |-> TRUE, format |-> Some("Mp4"), err |-> ""]
    ELSE [ok |-> TRUE, format |-> Some("Unknown"), err |-> ""]

detect_format(data) ==
    IF Len(data) < MinHeaderLen
    THEN [ok |-> FALSE, format |-> None, err |-> "InvalidFormat"]
    ELSE IF Len(data) >= 8 /\ SubSeq(data, 5, 8) = FtypTag
    THEN [ok |-> TRUE, format |-> Some("Mp4"), err |-> ""]
    ELSE IF Len(data) >= 4 /\ SubSeq(data, 1, 4) = EbmlMagic
    THEN [ok |-> TRUE, format |-> Some("Mkv"), err |-> ""]
    ELSE [ok |-> TRUE, format |-> Some("Unknown"), err |-> ""]

PlaceholderStream ==
    [index |-> 0, stream_type |-> "Video", codec |-> "unknown", duration_ms |-> None]

parse_streams(d) ==
    IF d.format \in {Some("Mp4"), Some("Mkv"), Some("WebM")}
    THEN [d EXCEPT !.streams = Append(@, PlaceholderStream)]
    ELSE d

\* Demuxer_init without `self.initialized = true`
Demuxer_init_noflag(d, data) ==
    IF data = <<>>
    THEN [ok |-> FALSE, d |-> d, err |-> "Demuxer"]
    ELSE LET f == detect_format(data) IN
         IF ~f.ok
         THEN [ok |-> FALSE, d |-> d, err |-> f.err]
         ELSE [ok |-> TRUE,
               d |-> parse_streams([d EXCEPT !.data = data,
                                             !.format = f.format,
                                             !.position = 0]),
               err |-> ""]

\* Demuxer_init with the format cleared when detect_format fails
Demuxer_init_clear_format(d, data) ==
    IF data = <<>>
    THEN [ok |-> FALSE, d |-> d, err |-> "Demuxer"]
    ELSE LET f == detect_format(data) IN
         IF ~f.ok
         THEN [ok |-> FALSE, d |-> [d EXCEPT !.format = None], err |-> f.err]
         ELSE [ok |-> TRUE,
               d |-> parse_streams([d EXCEPT !.data = data,
                                             !.format = f.format,
                                             !.position = 0,
                                             !.initialized = TRUE]),
               err |-> ""]

\* Demuxer_init with `self.data = data` moved before detect_format
Demuxer_init_assign_first(d, data) ==
    IF data = <<>>
    THEN [ok |-> FALSE, d |-> d, err |-> "Demuxer"]
    ELSE LET f == detect_format(data) IN
         IF ~f.ok
         THEN [ok |-> FALSE, d |-> [d EXCEPT !.data = data], err |-> f.err]
         ELSE [ok |-> TRUE,
               d |-> parse_streams([d EXCEPT !.data = data,
                                             !.format = f.format,
                                             !.position = 0,
                                             !.initialized = TRUE]),
               err |-> ""]

Demuxer_init(d, data) ==
    IF data = <<>>
    THEN [ok |-> FALSE, d |-> d, err |-> "Demuxer"]
    ELSE LET f == detect_format(data) IN
         IF ~f.ok
         THEN [ok |-> FALSE, d |-> d, err |-> f.err]
         ELSE [ok |-> TRUE,
               d |-> parse_streams([d EXCEPT !.data = data,
                                             !.format = f.format,
                                             !.position = 0,
                                             !.initialized = TRUE]),
               err |-> ""]

\* Ok(None) is the only value the stub returns: ok without a packet
Demuxer_read_packet(d) ==
    IF ~d.initialized
    THEN [ok |-> FALSE, d |-> d, err |-> "Demuxer"]
    ELSE [ok |-> TRUE, d |-> d, err |-> ""]

Demuxer_seek(d, timestamp_ms) ==
    IF ~d.initialized
    THEN [ok |-> FALSE, d |-> d, err |-> "Demuxer"]
    ELSE [ok |-> TRUE, d |-> d, err |-> ""]

----------------------------------------------------------------------------
(* decoder/mod.rs *)

DecoderConfig_default == [hardware_acceleration |-> TRUE, threads |-> 0]

VideoDecoder_default ==
    [codec |-> None, config |-> DecoderConfig_default, initialized |-> FALSE]

AudioDecoder_default ==
    [codec |-> None, config |-> DecoderConfig_default, initialized |-> FALSE]

VideoCodecs == {"H264", "H265", "Vp8", "Vp9", "Av1"}

AudioCodecs == {"Aac", "Mp3", "Opus", "Vorbis"}

\* the text of PlayerError::decoder("Decoder not initialized")
NotInitialized == "Decoder not initialized"

\* the text of PlayerError::decoder("Empty packet data")
EmptyPacket == "Empty packet data"

\* A decoder method returns the Result's ok flag, the decoder after the call,
\* the error text and the frames handed back: the Option of decode is a
\* sequence of at most one frame, the Vec of flush a sequence.  A frame's
\* data is known by its length.
VideoDecoder_init(d, codec, extra_data) ==
    [ok |-> TRUE,
     d |-> [d EXCEPT !.codec = Some(codec), !.initialized = TRUE],
     err |-> "",
     frames |-> <<>>]

VideoDecoder_decode(d, data, pts_ms) ==
    IF ~d.initialized
    THEN [ok |-> FALSE, d |-> d, err |-> NotInitialized, frames |-> <<>>]
    ELSE IF data = <<>>
    THEN [ok |-> FALSE, d |-> d, err |-> EmptyPacket, frames |-> <<>>]
    ELSE [ok |-> TRUE, d |-> d, err |-> "",
          frames |-> Some([width |-> 1920, height |-> 1080, pts_ms |-> pts_ms,
                           format |-> "Yuv420p",
                           data_len |-> (1920 * 1080 * 3) \div 2])]

\* VideoDecoder_flush without the test of self.initialized
VideoDecoder_flush_unguarded(d) ==
    [ok |-> TRUE, d |-> d, err |-> "", frames |-> <<>>]

VideoDecoder_flush(d) ==
    IF ~d.initialized
    THEN [ok |-> FALSE, d |-> d, err |-> NotInitialized, frames |-> <<>>]
    ELSE [ok |-> TRUE, d |-> d, err |-> "", frames |-> <<>>]

AudioDecoder_init(d, codec, extra_data) ==
    [ok |-> TRUE,
     d |-> [d EXCEPT !.codec = Some(codec), !.initialized = TRUE],
     err |-> "",
     frames |-> <<>>]

\* AudioDecoder_decode taking the empty slice for the end of the stream
AudioDecoder_decode_empty_eos(d, data, pts_ms) ==
    IF ~d.initialized
    THEN [ok |-> FALSE, d |-> d, err |-> NotInitialized, frames |-> <<>>]
    ELSE IF data = <<>>
    THEN [ok |-> TRUE, d |-> d, err |-> "", frames |-> None]
    ELSE [ok |-> TRUE, d |-> d, err |-> "",
          frames |-> Some([channels |-> 2, sample_rate |-> 48000,
                           pts_ms |-> pts_ms, format |-> "F32",
                           data_len |-> 4096])]

AudioDecoder_decode(d, data, pts_ms) ==
    IF ~d.initialized
    THEN [ok |-> FALSE, d |-> d, err |-> NotInitialized, frames |-> <<>>]
    ELSE IF data = <<>>
    THEN [ok |-> FALSE, d |-> d, err |-> EmptyPacket, frames |-> <<>>]
    ELSE [ok |-> TRUE, d |-> d, err |-> "",
          frames |-> Some([channels |-> 2, sample_rate |-> 48000,
                           pts_ms |-> pts_ms, format |-> "F32",
                           data_len |-> 4096])]

AudioDecoder_flush(d) ==
    IF ~d.initialized
    THEN [ok |-> FALSE, d |-> d, err |-> NotInitialized, frames |-> <<>>]
    ELSE [ok |-> TRUE, d |-> d, err |-> "", frames |-> <<>>]

----------------------------------------------------------------------------
(* frame_buffer.rs.  A frame is known to the queue by its pts_ms alone. *)

\* FrameBufferConfig::default().max_video_frames
DefaultMaxVideoFrames == 30

\* FrameBufferConfig::default().max_audio_frames
DefaultMaxAudioFrames == 50

VideoFrameBuffer_new(capacity) == [frames |-> <<>>, capacity |-> capacity]

AudioFrameBuffer_new(capacity) == [frames |-> <<>>, capacity |-> capacity]

\* VideoFrameBuffer_push without the test against the capacity
VideoFrameBuffer_push_unchecked(b, frame) ==
    [ok |-> TRUE, b |-> [b EXCEPT !.frames = Append(@, frame)]]

\* VideoFrameBuffer_push storing the frame before the test against the capacity
VideoFrameBuffer_push_then_check(b, frame) ==
    IF Len(b.frames) >= b.capacity
    THEN [ok |-> FALSE, b |-> [b EXCEPT !.frames = Append(@, frame)]]
    ELSE [ok |-> TRUE, b |-> [b EXCEPT !.frames = Append(@, frame)]]

VideoFrameBuffer_push(b, frame) ==
    IF Len(b.frames) >= b.capacity
    THEN [ok |-> FALSE, b |-> b]
    ELSE [ok |-> TRUE, b |-> [b EXCEPT !.frames = Append(@, frame)]]

\* AudioFrameBuffer_push with `>` for `>=`
AudioFrameBuffer_push_off_by_one(b, frame) ==
    IF Len(b.frames) > b.capacity
    THEN [ok |-> FALSE, b |-> b]
    ELSE [ok |-> TRUE, b |-> [b EXCEPT !.frames = Append(@, frame)]]

AudioFrameBuffer_push(b, frame) ==
    IF Len(b.frames) >= b.capacity
    THEN [ok |-> FALSE, b |-> b]
    ELSE [ok |-> TRUE, b |-> [b EXCEPT !.frames = Append(@, frame)]]

\* VideoFrameBuffer_pop with pop_back for pop_front
VideoFrameBuffer_pop_back(b) ==
    IF b.frames = <<>>
    THEN [ret |-> None, b |-> b]
    ELSE [ret |-> Some(b.frames[Len(b.frames)]),
          b |-> [b EXCEPT !.frames = SubSeq(@, 1, Len(@) - 1)]]

VideoFrameBuffer_pop(b) ==
    IF b.frames = <<>>
    THEN [ret |-> None, b |-> b]
    ELSE [ret |-> Some(Head(b.frames)), b |-> [b EXCEPT !.frames = Tail(@)]]

\* AudioFrameBuffer_pop returning a copy of the head and leaving it queued
AudioFrameBuffer_pop_keep(b) ==
    IF b.frames = <<>>
    THEN [ret |-> None, b |-> b]
    ELSE [ret |-> Some(Head(b.frames)), b |-> b]

AudioFrameBuffer_pop(b) ==
    IF b.frames = <<>>
    THEN [ret |-> None, b |-> b]
    ELSE [ret |-> Some(Head(b.frames)), b |-> [b EXCEPT !.frames = Tail(@)]]

\* VideoFrameBuffer_peek with back() for front()
VideoFrameBuffer_peek_back(b) ==
    IF b.frames = <<>> THEN None ELSE Some(b.frames[Len(b.frames)])

VideoFrameBuffer_peek(b) ==
    IF b.frames = <<>> THEN None ELSE Some(Head(b.frames))

AudioFrameBuffer_peek(b) ==
    IF b.frames = <<>> THEN None ELSE Some(Head(b.frames))

VideoFrameBuffer_front_pts(b) ==
    IF b.frames = <<>> THEN None ELSE Some(Head(b.frames).pts_ms)

VideoFrameBuffer_back_pts(b) ==
    IF b.frames = <<>> THEN None ELSE Some(b.frames[Len(b.frames)].pts_ms)

\* the methods of impl VideoFrameBuffer
VideoFrameBuffer_methods ==
    {"new", "push", "pop", "peek", "len", "is_empty", "is_full", "capacity",
     "clear", "front_pts", "back_pts"}

\* the methods of impl AudioFrameBuffer
AudioFrameBuffer_methods ==
    {"new", "push", "pop", "peek", "len", "is_empty", "is_full", "capacity",
     "clear"}

VideoFrameBuffer_clear(b) == [b EXCEPT !.frames = <<>>]

\* AudioFrameBuffer_clear that drops nothing
AudioFrameBuffer_clear_noop(b) == b

AudioFrameBuffer_clear(b) == [b EXCEPT !.frames = <<>>]

FrameBufferManager_new(config) ==
    [video |-> VideoFrameBuffer_new(config.max_video_frames),
     audio |-> AudioFrameBuffer_new(config.max_audio_frames)]

FrameBufferManager_default ==
    [video |-> VideoFrameBuffer_new(DefaultMaxVideoFrames),
     audio |-> AudioFrameBuffer_new(DefaultMaxAudioFrames)]

\* FrameBufferManager_clear without `self.audio.clear()`
FrameBufferManager_clear_video_only(fb) ==
    [video |-> VideoFrameBuffer_clear(fb.video), audio |-> fb.audio]

FrameBufferManager_clear(fb) ==
    [video |-> VideoFrameBuffer_clear(fb.video),
     audio |-> AudioFrameBuffer_clear(fb.audio)]

stats(fb) ==
    [video_frames |-> Len(fb.video.frames), video_capacity |-> fb.video.capacity,
     audio_frames |-> Len(fb.audio.frames), audio_capacity |-> fb.audio.capacity]

----------------------------------------------------------------------------
(* subtitle/mod.rs: the str methods the parser is written with.  A text is   *)
(* the sequence of its characters, a pattern likewise.                       *)

\* the white space str::trim removes, of the characters the texts are written in
Whitespace == {" ", "\t", "\n", "\r"}

RECURSIVE trim_start(_)
trim_start(s) ==
    IF s # <<>> /\ Head(s) \in Whitespace THEN trim_start(Tail(s)) ELSE s

RECURSIVE trim_end(_)
trim_end(s) ==
    IF s # <<>> /\ s[Len(s)] \in Whitespace
    THEN trim_end(SubSeq(s, 1, Len(s) - 1))
    ELSE s

trim(s) == trim_end(trim_start(s))

starts_with(s, pat) == Len(s) >= Len(pat) /\ SubSeq(s, 1, Len(pat)) = pat

\* the index of the first occurrence of pat in s, 0 when there is none
find(s, pat) ==
    LET at == {i \in 1..(Len(s) - Len(pat) + 1) : SubSeq(s, i, i + Len(pat) - 1) = pat}
    IN  IF at = {} THEN 0 ELSE CHOOSE i \in at : \A j \in at : i <= j

contains(s, pat) == find(s, pat) # 0

RECURSIVE split(_, _)
split(s, pat) ==
    LET i == find(s, pat) IN
    IF i = 0
    THEN <<s>>
    ELSE <<SubSeq(s, 1, i - 1)>> \o split(SubSeq(s, i + Len(pat), Len(s)), pat)

\* str::lines: the pieces between line feeds, without the empty piece after a
\* final line feed, each line-feed-terminated piece without its carriage return
lines(s) ==
    LET parts == split(s, <<"\n">>)
        kept == IF parts[Len(parts)] = <<>>
                THEN SubSeq(parts, 1, Len(parts) - 1)
                ELSE parts
        line(i) == IF i < Len(parts) /\ kept[i] # <<>> /\ kept[i][Len(kept[i])] = "\r"
                   THEN SubSeq(kept[i], 1, Len(kept[i]) - 1)
                   ELSE kept[i]
    IN  [i \in 1..Len(kept) |-> line(i)]

RECURSIVE join(_, _)
join(pieces, sep) ==
    IF pieces = <<>> THEN <<>>
    ELSE IF Len(pieces) = 1 THEN pieces[1]
    ELSE pieces[1] \o sep \o join(Tail(pieces), sep)

\* str::replace of one character by another
replace(s, from, to) == [i \in 1..Len(s) |-> IF s[i] = from THEN to ELSE s[i]]

Digits == <<"0", "1", "2", "3", "4", "5", "6", "7", "8", "9">>

DigitValue(c) == (CHOOSE i \in 1..Len(Digits) : Digits[i] = c) - 1

RECURSIVE DecimalValue(_)
DecimalValue(ds) ==
    IF ds = <<>> THEN 0
    ELSE DecimalValue(SubSeq(ds, 1, Len(ds) - 1)) * 10 + DigitValue(ds[Len(ds)])

\* str::parse::<u64>: an optional plus sign, then one digit or more.  Every
\* number of the texts parsed has at most three digits, far from u64::MAX.
parse_u64(s) ==
    LET ds == IF s # <<>> /\ Head(s) = "+" THEN Tail(s) ELSE s IN
    IF ds = <<>> \/ \E i \in 1..Len(ds) : \A k \in 1..Len(Digits) : ds[i] # Digits[k]
    THEN None
    ELSE Some(DecimalValue(ds))

\* format!("{}", n) of a usize
RECURSIVE to_string(_)
to_string(n) ==
    IF n < 10 THEN <<Digits[n + 1]>>
    ELSE to_string(n \div 10) \o <<Digits[(n % 10) + 1]>>

----------------------------------------------------------------------------
(* subtitle/mod.rs: SubtitleTrack and SubtitleParser. *)

SubtitleFormats == {"Srt", "Ass", "Vtt"}

SubtitleTrack_new(format) ==
    [format |-> format, language |-> None, title |-> None, cues |-> <<>>]

\* A query returns the cues it selected and the track after the call.
\* cues_at with the end of the interval included
SubtitleTrack_cues_at_closed_end(t, timestamp_ms) ==
    LET visible(cue) == timestamp_ms >= cue.start_ms /\ timestamp_ms <= cue.end_ms
    IN  [ret |-> SelectSeq(t.cues, visible), track |-> t]

\* cues_at handing back the cue inserted last first
SubtitleTrack_cues_at_newest_first(t, timestamp_ms) ==
    LET visible(cue) == timestamp_ms >= cue.start_ms /\ timestamp_ms < cue.end_ms
        found == SelectSeq(t.cues, visible)
    IN  [ret |-> [i \in 1..Len(found) |-> found[Len(found) + 1 - i]], track |-> t]

SubtitleTrack_cues_at(t, timestamp_ms) ==
    LET visible(cue) == timestamp_ms >= cue.start_ms /\ timestamp_ms < cue.end_ms
    IN  [ret |-> SelectSeq(t.cues, visible), track |-> t]

SubtitleTrack_add_cue(t, cue) == [t EXCEPT !.cues = Append(@, cue)]

cue_count(t) == Len(t.cues)

\* "WEBVTT"
VttMarker == <<"W", "E", "B", "V", "T", "T">>

\* "[Script Info]"
ScriptInfoHeader ==
    <<"[", "S", "c", "r", "i", "p", "t", " ", "I", "n", "f", "o", "]">>

\* "[V4+ Styles]"
StylesHeader == <<"[", "V", "4", "+", " ", "S", "t", "y", "l", "e", "s", "]">>

\* SubtitleParser_detect_format testing the Ass headers before the Vtt marker
SubtitleParser_detect_format_ass_first(data) ==
    LET trimmed == trim(data) IN
    IF starts_with(trimmed, ScriptInfoHeader) \/ contains(trimmed, StylesHeader)
    THEN "Ass"
    ELSE IF starts_with(trimmed, VttMarker) THEN "Vtt"
    ELSE "Srt"

SubtitleParser_detect_format(data) ==
    LET trimmed == trim(data) IN
    IF starts_with(trimmed, VttMarker) THEN "Vtt"
    ELSE IF starts_with(trimmed, ScriptInfoHeader) \/ contains(trimmed, StylesHeader)
    THEN "Ass"
    ELSE "Srt"

\* In the parser a `let` of the source is a variable bound over a set of one
\* element: its value is computed once however often the body reads it.

\* parse_srt_timestamp without the replacement of the comma by a period
parse_srt_timestamp_period_only(ts) ==
    LET normalized == ts
        of_parts(parts) ==
            IF Len(parts) # 3 THEN None
            ELSE LET hours == parse_u64(parts[1])
                     minutes == parse_u64(parts[2])
                     sec_parts == split(parts[3], <<".">>)
                     seconds == parse_u64(sec_parts[1])
                     millis == IF Len(sec_parts) > 1 THEN parse_u64(sec_parts[2])
                               ELSE Some(0)
                 IN  IF hours = None \/ minutes = None \/ seconds = None
                        \/ millis = None
                     THEN None
                     ELSE Some(hours[1] * 3600000 + minutes[1] * 60000
                               + seconds[1] * 1000 + millis[1])
    IN  CHOOSE r \in {of_parts(parts) : parts \in {split(normalized, <<":">>)}} :
            TRUE

parse_srt_timestamp(ts) ==
    LET normalized == replace(ts, ",", ".")
        of_parts(parts) ==
            IF Len(parts) # 3 THEN None
            ELSE LET hours == parse_u64(parts[1])
                     minutes == parse_u64(parts[2])
                     sec_parts == split(parts[3], <<".">>)
                     seconds == parse_u64(sec_parts[1])
                     millis == IF Len(sec_parts) > 1 THEN parse_u64(sec_parts[2])
                               ELSE Some(0)
                 IN  IF hours = None \/ minutes = None \/ seconds = None
                        \/ millis = None
                     THEN None
                     ELSE Some(hours[1] * 3600000 + minutes[1] * 60000
                               + seconds[1] * 1000 + millis[1])
    IN  CHOOSE r \in {of_parts(parts) : parts \in {split(normalized, <<":">>)}} :
            TRUE

parse_srt_timing(timing) ==
    LET of_parts(parts) ==
            IF Len(parts) # 2 THEN None
            ELSE LET start == parse_srt_timestamp(trim(parts[1]))
                     end == parse_srt_timestamp(trim(parts[2]))
                 IN  IF start = None \/ end = None THEN None
                     ELSE Some(<<start[1], end[1]>>)
    IN  CHOOSE r \in {of_parts(parts) :
                           parts \in {split(timing, <<"-", "-", ">">>)}} : TRUE

\* the filter of parse_srt: !s.trim().is_empty()
NotBlank(s) == trim(s) # <<>>

\* the loop of parse_srt from block number index (counted from 0) onwards
RECURSIVE parse_srt_blocks(_, _, _)
parse_srt_blocks(t, blocks, index) ==
    IF index >= Len(blocks) THEN t
    ELSE LET of_timing(ls, timing) ==
                 IF timing = None THEN t
                 ELSE SubtitleTrack_add_cue(t,
                          [id |-> to_string(index + 1),
                           start_ms |-> timing[1][1],
                           end_ms |-> timing[1][2],
                           text |-> join(SubSeq(ls, 3, Len(ls)), <<"\n">>),
                           style |-> None])
             of_lines(ls) ==
                 IF Len(ls) < 3 THEN t
                 ELSE CHOOSE r \in {of_timing(ls, timing) :
                                        timing \in {parse_srt_timing(ls[2])}} : TRUE
             added == CHOOSE r \in {of_lines(ls) :
                                       ls \in {lines(blocks[index + 1])}} : TRUE
         IN  parse_srt_blocks(added, blocks, index + 1)

parse_srt(data) ==
    LET blocks == SelectSeq(split(data, <<"\n", "\n">>), NotBlank) IN
    [ok |-> TRUE,
     track |-> Some(parse_srt_blocks(SubtitleTrack_new("Srt"), blocks, 0)),
     err |-> ""]

parse_vtt(data) ==
    [ok |-> TRUE, track |-> Some(SubtitleTrack_new("Vtt")), err |-> ""]

parse_ass(data) ==
    [ok |-> TRUE, track |-> Some(SubtitleTrack_new("Ass")), err |-> ""]

SubtitleParser_parse(data, format) ==
    IF data = <<>>
    THEN [ok |-> FALSE, track |-> None, err |-> "Subtitle"]
    ELSE LET detected_format == IF format # None THEN format[1]
                                ELSE SubtitleParser_detect_format(data)
         IN  CASE detected_format = "Srt" -> parse_srt(data)
               [] detected_format = "Vtt" -> parse_vtt(data)
               [] detected_format = "Ass" -> parse_ass(data)

----------------------------------------------------------------------------
(* lib.rs: the handlers of PlayerCore.  Each returns the Result's ok flag,   *)
(* the struct after the call, the values assigned to self.state and the      *)
(* component methods called, both in the order of the source.                *)

PlayerCore_new ==
    [state |-> "Idle",
     demuxer |-> Demuxer_new,
     video_decoder |-> VideoDecoder_default,
     audio_decoder |-> AudioDecoder_default,
     frame_buffer |-> FrameBufferManager_default]

\* load with the error of demuxer.init dropped instead of propagated by `?`
load_swallow(p, data) ==
    LET r == Demuxer_init(p.demuxer, data) IN
    [ok |-> TRUE,
     p |-> [p EXCEPT !.state = "Ready", !.demuxer = r.d],
     states |-> <<"Loading", "Ready">>,
     calls |-> <<"demuxer.init">>]

load(p, data) ==
    LET r == Demuxer_init(p.demuxer, data) IN
    IF ~r.ok
    THEN [ok |-> FALSE,
          p |-> [p EXCEPT !.state = "Loading", !.demuxer = r.d],
          states |-> <<"Loading">>,
          calls |-> <<"demuxer.init">>]
    ELSE [ok |-> TRUE,
          p |-> [p EXCEPT !.state = "Ready", !.demuxer = r.d],
          states |-> <<"Loading", "Ready">>,
          calls |-> <<"demuxer.init">>]

\* play with the guard testing Ready alone
play_ready_only(p) ==
    IF p.state # "Ready"
    THEN [ok |-> FALSE, p |-> p, states |-> <<>>, calls |-> <<>>]
    ELSE [ok |-> TRUE, p |-> [p EXCEPT !.state = "Playing"],
          states |-> <<"Playing">>, calls |-> <<>>]

\* play with the guard letting Loading through as well
play_from_loading(p) ==
    IF p.state # "Ready" /\ p.state # "Paused" /\ p.state # "Loading"
    THEN [ok |-> FALSE, p |-> p, states |-> <<>>, calls |-> <<>>]
    ELSE [ok |-> TRUE, p |-> [p EXCEPT !.state = "Playing"],
          states |-> <<"Playing">>, calls |-> <<>>]

play(p) ==
    IF p.state # "Ready" /\ p.state # "Paused"
    THEN [ok |-> FALSE, p |-> p, states |-> <<>>, calls |-> <<>>]
    ELSE [ok |-> TRUE, p |-> [p EXCEPT !.state = "Playing"],
          states |-> <<"Playing">>, calls |-> <<>>]

\* pause with the guard letting Ready through as well
pause_from_ready(p) ==
    IF p.state # "Playing" /\ p.state # "Ready"
    THEN [ok |-> FALSE, p |-> p, states |-> <<>>, calls |-> <<>>]
    ELSE [ok |-> TRUE, p |-> [p EXCEPT !.state = "Paused"],
          states |-> <<"Paused">>, calls |-> <<>>]

pause(p) ==
    IF p.state # "Playing"
    THEN [ok |-> FALSE, p |-> p, states |-> <<>>, calls |-> <<>>]
    ELSE [ok |-> TRUE, p |-> [p EXCEPT !.state = "Paused"],
          states |-> <<"Paused">>, calls |-> <<>>]

\* seek clearing the queues before the result of demuxer.seek is looked at
seek_clear_first(p, timestamp_ms) ==
    LET r == Demuxer_seek(p.demuxer, timestamp_ms) IN
    [ok |-> r.ok,
     p |-> [p EXCEPT !.demuxer = r.d,
                     !.frame_buffer = FrameBufferManager_clear(@)],
     states |-> <<>>,
     calls |-> <<"demuxer.seek", "frame_buffer.video.clear",
                 "frame_buffer.audio.clear">>]

seek(p, timestamp_ms) ==
    LET r == Demuxer_seek(p.demuxer, timestamp_ms) IN
    IF ~r.ok
    THEN [ok |-> FALSE, p |-> [p EXCEPT !.demuxer = r.d],
          states |-> <<>>, calls |-> <<"demuxer.seek">>]
    ELSE [ok |-> TRUE,
          p |-> [p EXCEPT !.demuxer = r.d,
                          !.frame_buffer = FrameBufferManager_clear(@)],
          states |-> <<>>,
          calls |-> <<"demuxer.seek", "frame_buffer.video.clear",
                      "frame_buffer.audio.clear">>]

\* reset without `self.demuxer = Demuxer::new()`
reset_keep_demuxer(p) ==
    [ok |-> TRUE,
     p |-> [p EXCEPT !.state = "Idle",
                     !.video_decoder = VideoDecoder_default,
                     !.audio_decoder = AudioDecoder_default,
                     !.frame_buffer = FrameBufferManager_clear(@)],
     states |-> <<"Idle">>,
     calls |-> <<"frame_buffer.video.clear", "frame_buffer.audio.clear">>]

reset(p) ==
    [ok |-> TRUE,
     p |-> [p EXCEPT !.state = "Idle",
                     !.demuxer = Demuxer_new,
                     !.video_decoder = VideoDecoder_default,
                     !.audio_decoder = AudioDecoder_default,
                     !.frame_buffer = FrameBufferManager_clear(@)],
     states |-> <<"Idle">>,
     calls |-> <<"frame_buffer.video.clear", "frame_buffer.audio.clear">>]

format(p) == p.demuxer.format

buffer_stats(p) ==
    LET s == stats(p.frame_buffer) IN
    [videoFrames |-> s.video_frames, videoCapacity |-> s.video_capacity,
     audioFrames |-> s.audio_frames, audioCapacity |-> s.audio_capacity]

\* the JSON object returned is the record of its two members
load_subtitles(p, data) ==
    LET r == SubtitleParser_parse(data, None) IN
    IF ~r.ok
    THEN [ok |-> FALSE, json |-> None]
    ELSE [ok |-> TRUE,
          json |-> Some([format |-> r.track[1].format,
                         cueCount |-> cue_count(r.track[1])])]

----------------------------------------------------------------------------
(* The components as their constructors leave them. *)

\* PlayerCore::new()
CtlFresh ==
    /\ player = PlayerCore_new
    /\ lastOp = "new"
    /\ lastArg = None
    /\ result = TRUE
    /\ stateTrace = <<"Idle">>
    /\ calls = <<>>
    /\ pre = PlayerCore_new

\* FrameBufferManager::default()
MgrFresh ==
    /\ mgr = FrameBufferManager_default
    /\ mgrOp = "new"
    /\ mgrArg = None
    /\ mgrRet = None
    /\ mgrPre = FrameBufferManager_default
    /\ accepted = [video |-> <<>>, audio |-> <<>>]
    /\ popped = [video |-> <<>>, audio |-> <<>>]

\* Demuxer::new()
DmxFresh ==
    /\ dmx = Demuxer_new
    /\ dmxOp = "new"
    /\ dmxArg = None
    /\ dmxRet = [ok |-> TRUE, err |-> ""]
    /\ dmxPre = Demuxer_new

\* VideoDecoder::default() and AudioDecoder::default()
DecFresh ==
    /\ decoders = [video |-> VideoDecoder_default, audio |-> AudioDecoder_default]
    /\ decOp = "new"
    /\ decArg = None
    /\ decRet = [ok |-> TRUE, err |-> "", frames |-> <<>>]
    /\ decPre = [video |-> VideoDecoder_default, audio |-> AudioDecoder_default]

\* SubtitleTrack::new(SubtitleFormat::Srt)
SubFresh ==
    /\ track = SubtitleTrack_new("Srt")
    /\ subOp = "new"
    /\ subArg = None
    /\ subRet = None
    /\ subPre = SubtitleTrack_new("Srt")

----------------------------------------------------------------------------
(* The controller driven by its host: one action per handler. *)

Init ==
    /\ player = PlayerCore_new
    /\ lastOp = "new"
    /\ lastArg = None
    /\ result = TRUE
    /\ stateTrace = <<"Idle">>
    /\ calls = <<>>
    /\ pre = PlayerCore_new
    /\ mgr = FrameBufferManager_default
    /\ mgrOp = "new"
    /\ mgrArg = None
    /\ mgrRet = None
    /\ mgrPre = FrameBufferManager_default
    /\ accepted = [video |-> <<>>, audio |-> <<>>]
    /\ popped = [video |-> <<>>, audio |-> <<>>]
    /\ DmxFresh
    /\ DecFresh
    /\ SubFresh

\* the bookkeeping common to the controller's handlers
Returned(op, arg, r) ==
    /\ player' = r.p
    /\ lastOp' = op
    /\ lastArg' = arg
    /\ result' = r.ok
    /\ stateTrace' = r.states
    /\ calls' = r.calls
    /\ pre' = player
    /\ UNCHANGED <<mgrVars, dmxVars, decVars, subVars>>

Load ==
    \E data \in LoadInputs :
        /\ Len(player.demuxer.streams) < MaxStreams
        /\ Returned("load", Some(data), load(player, data))

Play == Returned("play", None, play(player))

Pause == Returned("pause", None, pause(player))

Seek == \E ts \in SeekTargets : Returned("seek", Some(ts), seek(player, ts))

Reset == Returned("reset", None, reset(player))

\* the bookkeeping common to the operations on the two queues
Queued(op, arg, ok, fb) ==
    /\ player' = [player EXCEPT !.frame_buffer = fb]
    /\ lastOp' = op
    /\ lastArg' = arg
    /\ result' = ok
    /\ stateTrace' = <<>>
    /\ calls' = <<>>
    /\ pre' = player
    /\ UNCHANGED <<mgrVars, dmxVars, decVars, subVars>>

VideoPush ==
    \E pts \in FramePts :
        LET frame == [pts_ms |-> pts]
            r == VideoFrameBuffer_push(player.frame_buffer.video, frame)
        IN  /\ Len(player.frame_buffer.video.frames) < MaxFrames
            /\ Queued("video.push", Some(frame), r.ok,
                      [player.frame_buffer EXCEPT !.video = r.b])

AudioPush ==
    \E pts \in FramePts :
        LET frame == [pts_ms |-> pts]
            r == AudioFrameBuffer_push(player.frame_buffer.audio, frame)
        IN  /\ Len(player.frame_buffer.audio.frames) < MaxFrames
            /\ Queued("audio.push", Some(frame), r.ok,
                      [player.frame_buffer EXCEPT !.audio = r.b])

VideoPop ==
    LET r == VideoFrameBuffer_pop(player.frame_buffer.video) IN
    Queued("video.pop", None, r.ret # None,
           [player.frame_buffer EXCEPT !.video = r.b])

AudioPop ==
    LET r == AudioFrameBuffer_pop(player.frame_buffer.audio) IN
    Queued("audio.pop", None, r.ret # None,
           [player.frame_buffer EXCEPT !.audio = r.b])

Next ==
    \/ Load
    \/ Play
    \/ Pause
    \/ Seek
    \/ Reset
    \/ VideoPush
    \/ AudioPush
    \/ VideoPop
    \/ AudioPop

Spec == Init /\ [][Next]_vars

----------------------------------------------------------------------------
(* The FrameBufferManager on its own, as the decode driver and the host use  *)
(* it: built by FrameBufferManager::new(config), then any sequence of push,  *)
(* pop, peek and clear on its two public queues.                             *)

\* the configurations the manager is built with: every split of MaxCapacity
\* frames between the two queues, so that the capacities differ and include 0
BufConfigs ==
    {[max_video_frames |-> v, max_audio_frames |-> MaxCapacity - v] :
        v \in 0..MaxCapacity}

Frames == [pts_ms : FramePts]

BufInit ==
    /\ player = PlayerCore_new
    /\ lastOp = "new"
    /\ lastArg = None
    /\ result = TRUE
    /\ stateTrace = <<"Idle">>
    /\ calls = <<>>
    /\ pre = PlayerCore_new
    /\ \E config \in BufConfigs : mgr = FrameBufferManager_new(config)
    /\ mgrOp = "new"
    /\ mgrArg = None
    /\ mgrRet = None
    /\ mgrPre = mgr
    /\ accepted = [video |-> <<>>, audio |-> <<>>]
    /\ popped = [video |-> <<>>, audio |-> <<>>]
    /\ DmxFresh
    /\ DecFresh
    /\ SubFresh

\* the bookkeeping common to the manager's methods
Called(op, arg, ret, m) ==
    /\ mgr' = m
    /\ mgrOp' = op
    /\ mgrArg' = arg
    /\ mgrRet' = ret
    /\ mgrPre' = mgr
    /\ UNCHANGED <<ctlVars, dmxVars, decVars, subVars>>

\* manager.video.push(frame)
BufVideoPush ==
    \E frame \in Frames :
        LET r == VideoFrameBuffer_push(mgr.video, frame) IN
        /\ Len(accepted.video) < MaxPushes \/ ~r.ok
        /\ Called("video.push", Some(frame), IF r.ok THEN <<"Ok">> ELSE <<"Err">>,
                  [mgr EXCEPT !.video = r.b])
        /\ accepted' = IF r.ok THEN [accepted EXCEPT !.video = Append(@, frame)]
                       ELSE accepted
        /\ UNCHANGED popped

\* the audio push tested against the fullness of the video queue
BufAudioPush_shared_check ==
    \E frame \in Frames :
        LET r == IF Len(mgr.video.frames) >= mgr.video.capacity
                 THEN [ok |-> FALSE, b |-> mgr.audio]
                 ELSE AudioFrameBuffer_push(mgr.audio, frame) IN
        /\ Len(accepted.audio) < MaxPushes \/ ~r.ok
        /\ Called("audio.push", Some(frame), IF r.ok THEN <<"Ok">> ELSE <<"Err">>,
                  [mgr EXCEPT !.audio = r.b])
        /\ accepted' = IF r.ok THEN [accepted EXCEPT !.audio = Append(@, frame)]
                       ELSE accepted
        /\ UNCHANGED popped

\* manager.audio.push(frame)
BufAudioPush ==
    \E frame \in Frames :
        LET r == AudioFrameBuffer_push(mgr.audio, frame) IN
        /\ Len(accepted.audio) < MaxPushes \/ ~r.ok
        /\ Called("audio.push", Some(frame), IF r.ok THEN <<"Ok">> ELSE <<"Err">>,
                  [mgr EXCEPT !.audio = r.b])
        /\ accepted' = IF r.ok THEN [accepted EXCEPT !.audio = Append(@, frame)]
                       ELSE accepted
        /\ UNCHANGED popped

\* manager.video.pop()
BufVideoPop ==
    LET r == VideoFrameBuffer_pop(mgr.video) IN
    /\ Called("video.pop", None, r.ret, [mgr EXCEPT !.video = r.b])
    /\ popped' = IF r.ret = None THEN popped
                 ELSE [popped EXCEPT !.video = Append(@, r.ret[1])]
    /\ UNCHANGED accepted

\* manager.audio.pop()
BufAudioPop ==
    LET r == AudioFrameBuffer_pop(mgr.audio) IN
    /\ Called("audio.pop", None, r.ret, [mgr EXCEPT !.audio = r.b])
    /\ popped' = IF r.ret = None THEN popped
                 ELSE [popped EXCEPT !.audio = Append(@, r.ret[1])]
    /\ UNCHANGED accepted

\* manager.video.peek()
BufVideoPeek ==
    /\ Called("video.peek", None, VideoFrameBuffer_peek(mgr.video), mgr)
    /\ UNCHANGED <<accepted, popped>>

\* manager.audio.peek()
BufAudioPeek ==
    /\ Called("audio.peek", None, AudioFrameBuffer_peek(mgr.audio), mgr)
    /\ UNCHANGED <<accepted, popped>>

\* manager.video.clear()
BufVideoClear ==
    /\ Called("video.clear", None, None,
              [mgr EXCEPT !.video = VideoFrameBuffer_clear(@)])
    /\ accepted' = [accepted EXCEPT !.video = <<>>]
    /\ popped' = [popped EXCEPT !.video = <<>>]

\* manager.audio.clear()
BufAudioClear ==
    /\ Called("audio.clear", None, None,
              [mgr EXCEPT !.audio = AudioFrameBuffer_clear(@)])
    /\ accepted' = [accepted EXCEPT !.audio = <<>>]
    /\ popped' = [popped EXCEPT !.audio = <<>>]

\* manager.clear()
BufClear ==
    /\ Called("clear", None, None, FrameBufferManager_clear(mgr))
    /\ accepted' = [video |-> <<>>, audio |-> <<>>]
    /\ popped' = [video |-> <<>>, audio |-> <<>>]

BufNext ==
    \/ BufVideoPush
    \/ BufAudioPush
    \/ BufVideoPop
    \/ BufAudioPop
    \/ BufVideoPeek
    \/ BufAudioPeek
    \/ BufVideoClear
    \/ BufAudioClear
    \/ BufClear

BufSpec == BufInit /\ [][BufNext]_vars

----------------------------------------------------------------------------
(* The Demuxer on its own: built by Demuxer::new(), then any sequence of     *)
(* init, read_packet and seek.                                               *)

\* the first four bytes of a buffer: a box size, the EBML magic, the magic
\* with its last byte changed, the ftyp tag out of place
Heads == {<<0, 0, 0, 20>>, EbmlMagic, <<26, 69, 223, 162>>, FtypTag}

\* bytes 4..7 of a buffer: the ftyp tag, the tag with its last byte changed,
\* zeros, the EBML magic out of place
Tags == {FtypTag, <<102, 116, 121, 113>>, <<0, 0, 0, 0>>, EbmlMagic}

\* the bytes from 8 onwards: zeros, the brand b"isom", five bytes of 0xFF
Payloads == {<<0, 0, 0, 0>>, <<105, 115, 111, 109>>, <<255, 255, 255, 255, 255>>}

\* buffers of the header length or more
HeaderInputs == {h \o t \o p : h \in Heads, t \in Tags, p \in Payloads}

\* buffers shorter than the header length: every proper prefix of the two
\* headers of the tests, and the short buffer of the tests
ShortInputs ==
    {SubSeq(d, 1, n) : d \in {Mp4Data, MkvData}, n \in 0..(MinHeaderLen - 1)}
        \cup {EmptyData, ShortData}

DemuxInputs == HeaderInputs \cup ShortInputs

DmxInit ==
    /\ CtlFresh
    /\ MgrFresh
    /\ DmxFresh
    /\ DecFresh
    /\ SubFresh

\* the bookkeeping common to the demuxer's methods
Demuxed(op, arg, r) ==
    /\ dmx' = r.d
    /\ dmxOp' = op
    /\ dmxArg' = arg
    /\ dmxRet' = [ok |-> r.ok, err |-> r.err]
    /\ dmxPre' = dmx
    /\ UNCHANGED <<ctlVars, mgrVars, decVars, subVars>>

\* let demuxer = Demuxer::new()
DmxNew ==
    Demuxed("new", None, [ok |-> TRUE, d |-> Demuxer_new, err |-> ""])

\* demuxer.init(data)
DmxInitCall ==
    \E data \in DemuxInputs :
        LET r == Demuxer_init(dmx, data) IN
        /\ Len(r.d.streams) <= MaxStreams
        /\ Demuxed("init", Some(data), r)

\* demuxer.read_packet()
DmxReadPacket == Demuxed("read_packet", None, Demuxer_read_packet(dmx))

\* demuxer.seek(timestamp_ms)
DmxSeek ==
    \E ts \in SeekTargets : Demuxed("seek", Some(ts), Demuxer_seek(dmx, ts))

DmxNext ==
    \/ DmxNew
    \/ DmxInitCall
    \/ DmxReadPacket
    \/ DmxSeek

DmxSpec == DmxInit /\ [][DmxNext]_vars

----------------------------------------------------------------------------
(* The two decoders on their own: built by default(), then any sequence of   *)
(* init, decode and flush on either.                                         *)

\* the compressed data passed to decode: the empty slice, and &[1, 2, 3] of
\* test_video_decoder_decode_without_init
Packets == {<<>>, <<1, 2, 3>>}

DecInit ==
    /\ CtlFresh
    /\ MgrFresh
    /\ DmxFresh
    /\ DecFresh
    /\ SubFresh

\* the bookkeeping common to the decoders' methods
Decoded(op, arg, r, ds) ==
    /\ decoders' = ds
    /\ decOp' = op
    /\ decArg' = arg
    /\ decRet' = [ok |-> r.ok, err |-> r.err, frames |-> r.frames]
    /\ decPre' = decoders
    /\ UNCHANGED <<ctlVars, mgrVars, dmxVars, subVars>>

\* video.init(codec, None)
DecVideoInit ==
    \E codec \in VideoCodecs :
        LET r == VideoDecoder_init(decoders.video, codec, None) IN
        Decoded("video.init", <<codec>>, r, [decoders EXCEPT !.video = r.d])

\* video.decode(data, pts_ms)
DecVideoDecode ==
    \E data \in Packets, pts \in FramePts :
        LET r == VideoDecoder_decode(decoders.video, data, pts) IN
        Decoded("video.decode", <<data, pts>>, r, [decoders EXCEPT !.video = r.d])

\* video.flush()
DecVideoFlush ==
    LET r == VideoDecoder_flush(decoders.video) IN
    Decoded("video.flush", None, r, [decoders EXCEPT !.video = r.d])

\* audio.init(codec, None)
DecAudioInit ==
    \E codec \in AudioCodecs :
        LET r == AudioDecoder_init(decoders.audio, codec, None) IN
        Decoded("audio.init", <<codec>>, r, [decoders EXCEPT !.audio = r.d])

\* audio.decode(data, pts_ms)
DecAudioDecode ==
    \E data \in Packets, pts \in FramePts :
        LET r == AudioDecoder_decode(decoders.audio, data, pts) IN
        Decoded("audio.decode", <<data, pts>>, r, [decoders EXCEPT !.audio = r.d])

\* audio.flush()
DecAudioFlush ==
    LET r == AudioDecoder_flush(decoders.audio) IN
    Decoded("audio.flush", None, r, [decoders EXCEPT !.audio = r.d])

DecNext ==
    \/ DecVideoInit
    \/ DecVideoDecode
    \/ DecVideoFlush
    \/ DecAudioInit
    \/ DecAudioDecode
    \/ DecAudioFlush

DecSpec == DecInit /\ [][DecNext]_vars

----------------------------------------------------------------------------
(* A SubtitleTrack and the SubtitleParser on their own: a track built by     *)
(* SubtitleTrack::new, then any sequence of add_cue and cues_at on it, of    *)
(* parse, whose track replaces it, of load_subtitles and of                  *)
(* parse_srt_timestamp.                                                      *)

\* the intervals of the cues added: the two of test_subtitle_track_cues_at,
\* one that ends before it starts and one that ends where it starts
CueSpans == {<<1000, 3000>>, <<2500, 5000>>, <<3000, 1000>>, <<2500, 2500>>}

\* the cues passed to add_cue: one of each interval, and a second cue of the
\* first interval, so that two cues start together
Cues ==
    {[id |-> <<"1">>, start_ms |-> sp[1], end_ms |-> sp[2], text |-> <<"H", "i">>,
      style |-> None] : sp \in CueSpans}
        \cup {[id |-> <<"2">>, start_ms |-> 1000, end_ms |-> 3000,
               text |-> <<"H", "o">>, style |-> None]}

\* the timestamps queried: before, at and inside the intervals, at their ends
\* and after them
QueryTimes == {999, 1000, 1500, 2500, 2700, 2999, 3000, 4000, 5000, 6000}

\* the empty text of test_parser_empty_data
EmptyText == <<>>

\* the two blocks of test_parse_srt_basic
SrtBasic ==
    <<"1", "\n", "0", "0", ":", "0", "0", ":", "0", "1", ",", "0", "0", "0",
      " ", "-", "-", ">", " ", "0", "0", ":", "0", "0", ":", "0", "4", ",",
      "0", "0", "0", "\n", "H", "e", "l", "l", "o", ",", " ", "W", "o", "r",
      "l", "d", "!", "\n", "\n", "2", "\n", "0", "0", ":", "0", "0", ":",
      "0", "5", ",", "5", "0", "0", " ", "-", "-", ">", " ", "0", "0", ":",
      "0", "0", ":", "0", "8", ",", "0", "0", "0", "\n", "S", "e", "c", "o",
      "n", "d", " ", "s", "u", "b", "t", "i", "t", "l", "e", "\n", "w", "i",
      "t", "h", " ", "m", "u", "l", "t", "i", "p", "l", "e", " ", "l", "i",
      "n", "e", "s", "\n">>

\* one block whose timing line ends before it starts
SrtInverted ==
    <<"1", "\n", "0", "0", ":", "0", "0", ":", "0", "4", ",", "0", "0", "0",
      " ", "-", "-", ">", " ", "0", "0", ":", "0", "0", ":", "0", "1", ",",
      "0", "0", "0", "\n", "L", "a", "t", "e">>

\* one block whose timing line has a start of two components
SrtBadTiming ==
    <<"1", "\n", "0", "0", ":", "0", "0", " ", "-", "-", ">", " ", "0", "0",
      ":", "0", "0", ":", "0", "4", ",", "0", "0", "0", "\n", "L", "o", "s",
      "t">>

\* vtt_data of test_parser_detect_format_vtt
VttSample ==
    <<"W", "E", "B", "V", "T", "T", "\n", "\n", "0", "0", ":", "0", "0",
      ":", "0", "1", ".", "0", "0", "0", " ", "-", "-", ">", " ", "0", "0",
      ":", "0", "0", ":", "0", "4", ".", "0", "0", "0", "\n", "H", "e", "l",
      "l", "o">>

\* ass_data of test_parser_detect_format_ass
AssSample ==
    <<"[", "S", "c", "r", "i", "p", "t", " ", "I", "n", "f", "o", "]", "\n",
      "T", "i", "t", "l", "e", ":", " ", "T", "e", "s", "t">>

\* the marker of the Vtt format after a line feed
VttIndented == <<"\n">> \o VttMarker

\* the styles header of the Ass format on the second line of a text
AssStyles == <<"T", "\n">> \o StylesHeader

\* the marker of the Vtt format followed by the styles header of the Ass format
VttWithStyles == VttMarker \o <<"\n">> \o StylesHeader

\* a timestamp as the Srt format writes it: HH:MM:SS, then a comma or a
\* period, then mmm
Stamp(h, m, s, ms, sep) ==
    LET padded(n, width) ==
            [i \in 1..width |-> Digits[((n \div 10 ^ (width - i)) % 10) + 1]]
    IN  padded(h, 2) \o <<":">> \o padded(m, 2) \o <<":">> \o padded(s, 2)
            \o <<sep>> \o padded(ms, 3)

\* the fields of the timestamps of test_parse_srt_timestamp, with either
\* separator
StampFields == [h : {0, 1}, m : {0, 30}, s : {1, 45}, ms : {0, 123}, sep : {",", "."}]

\* the strings passed to parse_srt_timestamp: the timestamps of these fields,
\* "invalid" and "00:00" of test_parse_srt_timestamp, a timestamp of four
\* components and the empty string
Timestamps ==
    {Stamp(f.h, f.m, f.s, f.ms, f.sep) : f \in StampFields}
        \cup {<<"i", "n", "v", "a", "l", "i", "d">>,
              <<"0", "0", ":", "0", "0">>,
              <<"0", "0", ":">> \o Stamp(0, 0, 1, 0, ","),
              <<>>}

SubtitleTexts ==
    {EmptyText, SrtBasic, SrtInverted, SrtBadTiming, VttSample, AssSample,
     VttIndented, AssStyles, VttWithStyles}

\* the format argument of parse: None, or one of the formats
FormatArgs == {None} \cup {Some(f) : f \in SubtitleFormats}

SubInit ==
    /\ CtlFresh
    /\ MgrFresh
    /\ DmxFresh
    /\ DecFresh
    /\ \E f \in SubtitleFormats : track = SubtitleTrack_new(f)
    /\ subOp = "new"
    /\ subArg = None
    /\ subRet = None
    /\ subPre = track

\* the bookkeeping common to the operations on the track
Tracked(op, arg, ret, t) ==
    /\ track' = t
    /\ subOp' = op
    /\ subArg' = arg
    /\ subRet' = ret
    /\ subPre' = track
    /\ UNCHANGED <<ctlVars, mgrVars, dmxVars, decVars>>

\* track.add_cue(cue)
SubAddCue ==
    \E cue \in Cues :
        /\ Len(track.cues) < MaxCues
        /\ Tracked("add_cue", <<cue>>, None, SubtitleTrack_add_cue(track, cue))

\* track.cues_at(timestamp_ms)
SubCuesAt ==
    \E ts \in QueryTimes :
        LET r == SubtitleTrack_cues_at(track, ts) IN
        Tracked("cues_at", <<ts>>, r.ret, r.track)

\* what parse returns for each text and format argument: it reads nothing
\* but its arguments
Parsed ==
    [data \in SubtitleTexts, f \in FormatArgs |-> SubtitleParser_parse(data, f)]

\* what load_subtitles returns for each text: the parser it reads is a unit
\* struct
Loaded ==
    [data \in SubtitleTexts |-> load_subtitles(PlayerCore_new, data)]

\* let track = parser.parse(data, format)?  The track is the one returned
\* from then on; parse is given none, so there is no track before the call
\* other than it.
SubParse ==
    \E data \in SubtitleTexts, f \in FormatArgs :
        LET r == Parsed[data, f] IN
        /\ track' = IF r.ok THEN r.track[1] ELSE track
        /\ subOp' = "parse"
        /\ subArg' = <<data, f>>
        /\ subRet' = r
        /\ subPre' = track'
        /\ UNCHANGED <<ctlVars, mgrVars, dmxVars, decVars>>

\* player.load_subtitles(data)
SubLoadSubtitles ==
    \E data \in SubtitleTexts :
        Tracked("load_subtitles", <<data>>, Loaded[data], track)

\* what parse_srt_timestamp returns for each string: it reads nothing but
\* its argument
Stamped == [ts \in Timestamps |-> parse_srt_timestamp(ts)]

\* parser.parse_srt_timestamp(ts)
SubParseTimestamp ==
    \E ts \in Timestamps :
        Tracked("parse_srt_timestamp", <<ts>>, Stamped[ts], track)

SubNext ==
    \/ SubAddCue
    \/ SubCuesAt
    \/ SubParse
    \/ SubLoadSubtitles
    \/ SubParseTimestamp

SubSpec == SubInit /\ [][SubNext]_vars

----------------------------------------------------------------------------
(* Properties of the controller (spec sections 3, 4.5, 6 and 8). *)

\* the states play() is rejected in
PlayRejecting == {"Idle", "Loading", "Ended", "Error"}

\* both queues held a frame when the last handler was called
QueuesHeldFrames ==
    /\ pre.frame_buffer.video.frames # <<>>
    /\ pre.frame_buffer.audio.frames # <<>>

\* C1: whenever state() is Ready, Playing or Paused the owned demuxer is
\* initialized.
C1_ActiveImpliesDemuxerInitialized ==
    player.state \in {"Ready", "Playing", "Paused"} => player.demuxer.initialized

C1_Witness ==
    /\ lastOp = "play"
    /\ result
    /\ player.state = "Playing"
    /\ player.demuxer.initialized

\* C2: play() called in Ready or Paused returns Ok and leaves the state
\* Playing; load(valid data), play, pause, play from a fresh controller
\* succeeds at every step and ends in Playing.
C2_PlayFromReadyOrPaused ==
    /\ (lastOp = "play" /\ pre.state \in {"Ready", "Paused"})
           => (result /\ player.state = "Playing")
    /\ LET s1 == load(PlayerCore_new, Mp4Data)
           s2 == play(s1.p)
           s3 == pause(s2.p)
           s4 == play(s3.p)
       IN  /\ s1.ok /\ s1.p.state = "Ready"
           /\ s2.ok /\ s2.p.state = "Playing"
           /\ s3.ok /\ s3.p.state = "Paused"
           /\ s4.ok /\ s4.p.state = "Playing"

C2_Witness ==
    /\ lastOp = "play"
    /\ pre.state = "Paused"
    /\ result
    /\ player.state = "Playing"

\* C3: play() called in Idle, Loading, Ended or Error returns an error and
\* leaves the state and every owned component unchanged.  Ended and Error are
\* states no handler assigns, so the handler is also applied to the reachable
\* controller with its state field set to each rejecting state.
C3_PlayRejected ==
    /\ (lastOp = "play" /\ pre.state \in PlayRejecting)
           => (~result /\ player = pre)
    /\ \A s \in PlayRejecting :
           LET q == [player EXCEPT !.state = s]
               r == play(q)
           IN  ~r.ok /\ r.p = q

C3_Witness ==
    /\ lastOp = "play"
    /\ pre.state = "Loading"
    /\ ~result
    /\ player = pre

\* C4: pause() returns Ok exactly when the state is Playing, and then the
\* state becomes Paused; in every other state it returns an error and leaves
\* the controller unchanged.
C4_PauseOnlyWhenPlaying ==
    /\ lastOp = "pause" =>
           /\ result <=> pre.state = "Playing"
           /\ result => player = [pre EXCEPT !.state = "Paused"]
           /\ ~result => player = pre
    /\ \A s \in PlayerStates :
           LET q == [player EXCEPT !.state = s]
               r == pause(q)
           IN  /\ r.ok <=> s = "Playing"
               /\ r.ok => r.p = [q EXCEPT !.state = "Paused"]
               /\ ~r.ok => r.p = q

C4_Witness ==
    /\ lastOp = "pause"
    /\ pre.state = "Playing"
    /\ result
    /\ player.state = "Paused"

\* C5: load(data) called in Idle with data the demuxer accepts passes through
\* Loading to Ready: it returns Ok, the state was set to Loading and then to
\* Ready, and the demuxer is initialized.
C5_LoadFromIdle ==
    (/\ lastOp = "load"
     /\ pre.state = "Idle"
     /\ Demuxer_init(pre.demuxer, lastArg[1]).ok)
        => /\ result
           /\ stateTrace = <<"Loading", "Ready">>
           /\ player.state = "Ready"
           /\ player.demuxer.initialized

C5_Witness ==
    /\ lastOp = "load"
    /\ pre.state = "Idle"
    /\ lastArg = Some(MkvData)
    /\ result
    /\ player.state = "Ready"

\* C6: load() called in any state other than Idle is rejected with an error
\* and leaves the state and the demuxer unchanged.
C6_LoadOnlyFromIdle ==
    (lastOp = "load" /\ pre.state # "Idle")
        => /\ ~result
           /\ player.state = pre.state
           /\ player.demuxer = pre.demuxer

\* C7: seek(ts) on a controller whose demuxer is not initialized returns an
\* error and changes neither the state nor the contents of either queue.
C7_SeekUninitializedRejected ==
    (lastOp = "seek" /\ ~pre.demuxer.initialized)
        => /\ ~result
           /\ player.state = pre.state
           /\ player.frame_buffer = pre.frame_buffer

\* a seek after a failed load from Idle, with frames queued
C7_Witness ==
    /\ lastOp = "seek"
    /\ ~pre.demuxer.initialized
    /\ pre.state = "Loading"
    /\ QueuesHeldFrames
    /\ ~result

\* C8: a successful seek(ts) leaves the player state as it was and both
\* queues empty whatever they held; buffer_stats reports zero frames on both
\* queues and the capacities unchanged.
C8_SeekClearsQueues ==
    (lastOp = "seek" /\ result)
        => /\ player.state = pre.state
           /\ player.frame_buffer.video.frames = <<>>
           /\ player.frame_buffer.audio.frames = <<>>
           /\ buffer_stats(player).videoFrames = 0
           /\ buffer_stats(player).audioFrames = 0
           /\ buffer_stats(player).videoCapacity = buffer_stats(pre).videoCapacity
           /\ buffer_stats(player).audioCapacity = buffer_stats(pre).audioCapacity

C8_Witness ==
    /\ lastOp = "seek"
    /\ result
    /\ QueuesHeldFrames
    /\ pre.state = "Playing"
    /\ player.state = "Playing"

\* C9: a successful seek performs, in this order, StreamSource.seek, then the
\* clear of both queues, then the flush of both decoders.
C9_SeekThenClearThenFlush ==
    (lastOp = "seek" /\ result)
        => /\ Len(calls) = 5
           /\ SubSeq(calls, 1, 3) = <<"demuxer.seek", "frame_buffer.video.clear",
                                      "frame_buffer.audio.clear">>
           /\ {calls[4], calls[5]} = {"video_decoder.flush", "audio_decoder.flush"}

\* C10: reset() succeeds in every reachable state and leaves the controller
\* equal to a fresh new(): Idle, the demuxer uninitialized with no format and
\* no streams, both decoders uninitialized, both queues empty with their
\* default capacities.
C10_ResetEqualsNew ==
    /\ reset(player).ok
    /\ reset(player).p = PlayerCore_new
    /\ lastOp = "reset" =>
           /\ result
           /\ player = PlayerCore_new
           /\ player.state = "Idle"
           /\ ~player.demuxer.initialized
           /\ player.demuxer.format = None
           /\ player.demuxer.streams = <<>>
           /\ ~player.video_decoder.initialized
           /\ ~player.audio_decoder.initialized
           /\ stats(player.frame_buffer) =
                  [video_frames |-> 0, video_capacity |-> DefaultMaxVideoFrames,
                   audio_frames |-> 0, audio_capacity |-> DefaultMaxAudioFrames]

C10_Witness ==
    /\ lastOp = "reset"
    /\ pre.state = "Playing"
    /\ pre.demuxer.initialized
    /\ QueuesHeldFrames
    /\ player = PlayerCore_new

----------------------------------------------------------------------------
(* Properties of the states the controller reaches (spec section 4.5). *)

\* the controllers one handler call away from p
Handlers(p) ==
    {load(p, data).p : data \in LoadInputs}
        \cup {play(p).p, pause(p).p, reset(p).p}
        \cup {seek(p, ts).p : ts \in SeekTargets}

RECURSIVE ReachIn(_, _)
\* the controllers at most n handler calls away from those of S
ReachIn(S, n) ==
    IF n = 0 THEN S
    ELSE ReachIn(S \cup UNION {Handlers(p) : p \in S}, n - 1)

\* C11: from Playing or Paused there is a sequence of controller operations
\* that ends with state() equal to Ended, and one that ends with Error.
C11_EndedAndErrorReachable ==
    player.state \in {"Playing", "Paused"}
        => /\ \E q \in ReachIn({player}, MaxSteps) : q.state = "Ended"
           /\ \E q \in ReachIn({player}, MaxSteps) : q.state = "Error"

\* what the code does instead: no reachable controller is in Ended or Error
C11_NeverEndedNorError == player.state \notin {"Ended", "Error"}

----------------------------------------------------------------------------
(* Properties of the frame queues (spec sections 4.3 and 8), stated of the   *)
(* stand-alone manager.                                                      *)

PushOps == {"video.push", "audio.push"}

\* the queue the last method was called on, before and after the call
QueueBefore == IF mgrOp \in {"video.push", "video.pop", "video.peek", "video.clear"}
               THEN mgrPre.video ELSE mgrPre.audio

QueueAfter == IF mgrOp \in {"video.push", "video.pop", "video.peek", "video.clear"}
              THEN mgr.video ELSE mgr.audio

RECURSIVE VideoPushedTimes(_, _, _)
\* the video queue b after n more calls of push(frame)
VideoPushedTimes(b, frame, n) ==
    IF n = 0 THEN b
    ELSE VideoPushedTimes(VideoFrameBuffer_push(b, frame).b, frame, n - 1)

RECURSIVE AudioPushedTimes(_, _, _)
\* the audio queue b after n more calls of push(frame)
AudioPushedTimes(b, frame, n) ==
    IF n = 0 THEN b
    ELSE AudioPushedTimes(AudioFrameBuffer_push(b, frame).b, frame, n - 1)

\* C12: for each queue and every sequence of push, pop, peek and clear, the
\* length never exceeds the capacity the queue was constructed with.
C12_LengthWithinCapacity ==
    /\ Len(mgr.video.frames) <= mgr.video.capacity
    /\ Len(mgr.audio.frames) <= mgr.audio.capacity
    /\ mgr.video.capacity = mgrPre.video.capacity
    /\ mgr.audio.capacity = mgrPre.audio.capacity

C12_Witness ==
    /\ mgrOp = "video.push"
    /\ mgrRet = <<"Err">>
    /\ mgr.video.capacity > 0
    /\ Len(mgr.video.frames) = mgr.video.capacity
    /\ popped.video # <<>>

\* C13: each queue is strictly FIFO under any interleaving of pushes and
\* pops: the frames popped since the last clear, followed by the frames still
\* queued, are the frames accepted since the last clear in the order of their
\* pushes (no reordering by timestamp, no loss, no duplication).
C13_StrictFifo ==
    /\ accepted.video = popped.video \o mgr.video.frames
    /\ accepted.audio = popped.audio \o mgr.audio.frames

\* two pops around a push, returning a later timestamp before an earlier one
C13_Witness ==
    /\ mgrOp = "video.pop"
    /\ Len(popped.video) = 2
    /\ popped.video[1].pts_ms > popped.video[2].pts_ms
    /\ mgr.video.frames # <<>>
    /\ Len(accepted.video) = 3

\* C14: push fails with buffer-full exactly when the length already equals
\* the capacity; a push below capacity succeeds and adds exactly one frame;
\* on a queue of capacity C the first C pushes succeed and the next one fails.
C14_PushFailsExactlyWhenFull ==
    /\ mgrOp \in PushOps =>
           /\ mgrRet = <<"Err">> <=> Len(QueueBefore.frames) = QueueBefore.capacity
           /\ Len(QueueBefore.frames) < QueueBefore.capacity =>
                  /\ mgrRet = <<"Ok">>
                  /\ Len(QueueAfter.frames) = Len(QueueBefore.frames) + 1
    /\ \A c \in 0..MaxCapacity, frame \in Frames :
           /\ \A k \in 0..(c - 1) :
                  /\ VideoFrameBuffer_push(
                         VideoPushedTimes(VideoFrameBuffer_new(c), frame, k), frame).ok
                  /\ AudioFrameBuffer_push(
                         AudioPushedTimes(AudioFrameBuffer_new(c), frame, k), frame).ok
           /\ ~VideoFrameBuffer_push(
                   VideoPushedTimes(VideoFrameBuffer_new(c), frame, c), frame).ok
           /\ ~AudioFrameBuffer_push(
                   AudioPushedTimes(AudioFrameBuffer_new(c), frame, c), frame).ok

\* the push after capacity-many accepted pushes and no pop
C14_Witness ==
    /\ mgrOp = "audio.push"
    /\ mgrRet = <<"Err">>
    /\ popped.audio = <<>>
    /\ mgr.audio.capacity = MaxCapacity
    /\ Len(accepted.audio) = mgr.audio.capacity

\* C15: a failed push leaves the queue's contents, order, length and capacity
\* as before: the rejected frame is not stored and no queued frame is dropped
\* or overwritten.
C15_FailedPushChangesNothing ==
    (mgrOp \in PushOps /\ mgrRet = <<"Err">>)
        => /\ mgr = mgrPre
           /\ QueueAfter.frames = QueueBefore.frames
           /\ QueueAfter.capacity = QueueBefore.capacity

\* a rejected frame that differs from every queued one
C15_Witness ==
    /\ mgrOp = "video.push"
    /\ mgrRet = <<"Err">>
    /\ Len(mgr.video.frames) = 2
    /\ \A i \in 1..Len(mgr.video.frames) : mgr.video.frames[i] # mgrArg[1]

\* C16: pop() on an empty queue returns None and leaves the queue unchanged;
\* on a non-empty queue it returns the head frame and the queue keeps the
\* remaining frames in their order, one fewer.
C16_PopHeadOrNone ==
    mgrOp \in {"video.pop", "audio.pop"} =>
        /\ QueueBefore.frames = <<>> => (mgrRet = None /\ mgr = mgrPre)
        /\ QueueBefore.frames # <<>> =>
               /\ mgrRet = Some(Head(QueueBefore.frames))
               /\ QueueAfter.frames = Tail(QueueBefore.frames)
               /\ Len(QueueAfter.frames) = Len(QueueBefore.frames) - 1
               /\ QueueAfter.capacity = QueueBefore.capacity

C16_Witness ==
    /\ mgrOp = "audio.pop"
    /\ Len(mgrPre.audio.frames) = 2
    /\ mgrPre.audio.frames[1] # mgrPre.audio.frames[2]
    /\ mgrRet = Some(mgrPre.audio.frames[1])
    /\ mgr.audio.frames = <<mgrPre.audio.frames[2]>>

\* C17: peek() never changes the queue: it returns None on an empty queue,
\* otherwise the frame the next pop() would return, and a repeated peek
\* returns the same frame with the length unchanged.
C17_PeekIsNextPop ==
    /\ mgrOp = "video.peek" =>
           /\ mgr = mgrPre
           /\ mgr.video.frames = <<>> <=> mgrRet = None
           /\ mgrRet = VideoFrameBuffer_pop(mgr.video).ret
           /\ mgrRet = VideoFrameBuffer_peek(mgr.video)
    /\ mgrOp = "audio.peek" =>
           /\ mgr = mgrPre
           /\ mgr.audio.frames = <<>> <=> mgrRet = None
           /\ mgrRet = AudioFrameBuffer_pop(mgr.audio).ret
           /\ mgrRet = AudioFrameBuffer_peek(mgr.audio)

C17_Witness ==
    /\ mgrOp = "video.peek"
    /\ Len(mgr.video.frames) = 2
    /\ mgr.video.frames[1] # mgr.video.frames[2]
    /\ mgrRet = Some(mgr.video.frames[1])

\* the video half of C18: front_pts() is the pts of the earliest accepted
\* frame not yet popped, back_pts() that of the frame accepted last, and both
\* are None exactly when the queue is empty
C18_VideoFrontBackPts ==
    IF mgr.video.frames = <<>>
    THEN /\ VideoFrameBuffer_front_pts(mgr.video) = None
         /\ VideoFrameBuffer_back_pts(mgr.video) = None
    ELSE /\ VideoFrameBuffer_front_pts(mgr.video)
                = Some(accepted.video[Len(popped.video) + 1].pts_ms)
         /\ VideoFrameBuffer_back_pts(mgr.video)
                = Some(accepted.video[Len(accepted.video)].pts_ms)

\* C18: front_pts() and back_pts() report the oldest and the newest queued
\* timestamp, None exactly when the queue is empty, on the queues of both
\* media types.
C18_FrontBackPtsBothQueues ==
    /\ C18_VideoFrontBackPts
    /\ {"front_pts", "back_pts"} \subseteq VideoFrameBuffer_methods
    /\ {"front_pts", "back_pts"} \subseteq AudioFrameBuffer_methods

\* C19: clear() on the manager leaves both queues with length zero whatever
\* they held and both capacities unchanged; a following pop on either queue
\* returns None and a following push succeeds if the capacity is positive.
C19_ClearEmptiesBoth ==
    mgrOp = "clear" =>
        /\ mgr.video.frames = <<>>
        /\ mgr.audio.frames = <<>>
        /\ mgr.video.capacity = mgrPre.video.capacity
        /\ mgr.audio.capacity = mgrPre.audio.capacity
        /\ VideoFrameBuffer_pop(mgr.video).ret = None
        /\ AudioFrameBuffer_pop(mgr.audio).ret = None
        /\ \A frame \in Frames :
               /\ mgr.video.capacity > 0 => VideoFrameBuffer_push(mgr.video, frame).ok
               /\ mgr.audio.capacity > 0 => AudioFrameBuffer_push(mgr.audio, frame).ok

C19_Witness ==
    /\ mgrOp = "clear"
    /\ Len(mgrPre.video.frames) = mgrPre.video.capacity
    /\ Len(mgrPre.audio.frames) = mgrPre.audio.capacity
    /\ mgrPre.video.capacity > 0
    /\ mgrPre.audio.capacity > 0
    /\ stats(mgr).video_frames = 0
    /\ stats(mgr).audio_frames = 0

\* C20: the two queues are independent: a push, pop or peek on one queue,
\* successful or failed, never changes the other, and whether a push succeeds
\* depends on its own queue alone, so a full queue does not make a push on the
\* other one fail.
C20_QueuesIndependent ==
    /\ mgrOp \in {"video.push", "video.pop", "video.peek"} => mgr.audio = mgrPre.audio
    /\ mgrOp \in {"audio.push", "audio.pop", "audio.peek"} => mgr.video = mgrPre.video
    /\ mgrOp \in PushOps =>
           (mgrRet = <<"Ok">> <=> Len(QueueBefore.frames) < QueueBefore.capacity)

\* a push accepted by the audio queue while the video queue is full
C20_Witness ==
    /\ mgrOp = "audio.push"
    /\ mgrRet = <<"Ok">>
    /\ mgr.video.capacity > 0
    /\ Len(mgr.video.frames) = mgr.video.capacity
    /\ mgr.video = mgrPre.video

----------------------------------------------------------------------------
(* Properties of the subtitle track and parser (spec sections 4.4, 8, 9). *)

\* the visibility rule of the specification: start_ms <= t < end_ms
Visible(cue, t) == cue.start_ms <= t /\ t < cue.end_ms

\* C21: cues_at(t) returns exactly the cues of the track with
\* start_ms <= t < end_ms: as many as are visible, each visible cue,
\* overlapping ones included, and no cue that is not visible, so none at
\* t = end_ms and none at t < start_ms.
C21_CuesAtHalfOpen ==
    subOp = "cues_at" =>
        LET t == subArg[1]
            shown == {i \in 1..Len(subPre.cues) : Visible(subPre.cues[i], t)}
        IN  /\ Len(subRet) = Cardinality(shown)
            /\ \A i \in shown : \E k \in 1..Len(subRet) : subRet[k] = subPre.cues[i]
            /\ \A k \in 1..Len(subRet) :
                   /\ Visible(subRet[k], t)
                   /\ \E i \in 1..Len(subPre.cues) : subPre.cues[i] = subRet[k]

\* a query at the end of one cue of the track that returned another cue
C21_Witness ==
    /\ subOp = "cues_at"
    /\ Len(subRet) = 1
    /\ \E i \in 1..Len(subPre.cues) :
           /\ subPre.cues[i].end_ms = subArg[1]
           /\ subPre.cues[i].start_ms < subArg[1]
           /\ subPre.cues[i] # subRet[1]

\* C22: cues_at is a pure query: the track after the call is the track before
\* it, a second query at the same timestamp returns the list the first one
\* returned and leaves the track alone too, and two returned cues with equal
\* start times are in the order in which they were inserted.
C22_CuesAtPure ==
    subOp = "cues_at" =>
        LET again == SubtitleTrack_cues_at(track, subArg[1]) IN
        /\ track = subPre
        /\ again.ret = subRet
        /\ again.track = track
        /\ \A k, l \in 1..Len(subRet) :
               (k < l /\ subRet[k].start_ms = subRet[l].start_ms) =>
                   \E i, j \in 1..Len(track.cues) :
                       /\ i < j
                       /\ track.cues[i] = subRet[k]
                       /\ track.cues[j] = subRet[l]

\* a query that returned two different cues starting together
C22_Witness ==
    /\ subOp = "cues_at"
    /\ track = subPre
    /\ Len(subRet) = 2
    /\ subRet[1].start_ms = subRet[2].start_ms
    /\ subRet[1] # subRet[2]

\* C23: every cue held by a track, inserted by add_cue or produced by parse,
\* has start_ms < end_ms; a timing line whose end is not after its start
\* yields no stored cue.
C23_CuesStartBeforeEnd ==
    \A i \in 1..Len(track.cues) : track.cues[i].start_ms < track.cues[i].end_ms

\* C24: parsing a non-empty text as VTT or ASS, by parse or by
\* load_subtitles, never returns Ok with a track of no cues.
C24_VttAssNeverEmptyOk ==
    /\ (subOp = "parse" /\ subArg[1] # <<>> /\ subRet.ok
           /\ subRet.track[1].format \in {"Vtt", "Ass"})
        => subRet.track[1].cues # <<>>
    /\ (subOp = "load_subtitles" /\ subArg[1] # <<>> /\ subRet.ok
           /\ subRet.json[1].format \in {"Vtt", "Ass"})
        => subRet.json[1].cueCount > 0

----------------------------------------------------------------------------
(* Properties of the container format (spec sections 4.1, 6 and 8). *)

\* C25: format() is None exactly when the demuxer is uninitialized: None on a
\* fresh or reset controller, unchanged by a failed load and by every other
\* handler, and after a successful load the family detected from the data
\* of that load.
C25_FormatNoneIffUninitialized ==
    /\ (format(player) = None) <=> ~player.demuxer.initialized
    /\ lastOp \in {"new", "reset"} => format(player) = None
    /\ (lastOp = "load" /\ result) =>
           /\ format(player) # None
           /\ format(player) = detect_format(lastArg[1]).format
    /\ (lastOp = "load" /\ ~result) => format(player) = format(pre)
    /\ lastOp \notin {"new", "reset", "load"} => format(player) = format(pre)

\* a failed load after a successful one, the format still the one detected
C25_Witness ==
    /\ lastOp = "load"
    /\ ~result
    /\ lastArg[1] # <<>>
    /\ pre.demuxer.initialized
    /\ format(player) = Some("Mkv")

\* the buffer has the header length and bytes 4..7 are the ftyp tag
HasFtypTag(data) == Len(data) >= 12 /\ SubSeq(data, 5, 8) = FtypTag

\* the buffer has the header length and bytes 0..3 are the EBML magic
HasEbmlMagic(data) == Len(data) >= 12 /\ SubSeq(data, 1, 4) = EbmlMagic

\* C26: init with a buffer of at least 12 bytes whose bytes 4..7 are ftyp
\* succeeds and detects Mp4, whatever the other bytes are.
C26_FtypIsMp4 ==
    (dmxOp = "init" /\ HasFtypTag(dmxArg[1])) =>
        /\ dmxRet.ok
        /\ dmx.initialized
        /\ dmx.format = Some("Mp4")
        /\ dmx.data = dmxArg[1]

\* a buffer of thirteen bytes that starts with the EBML magic and has the tag
C26_Witness ==
    /\ dmxOp = "init"
    /\ HasFtypTag(dmxArg[1])
    /\ HasEbmlMagic(dmxArg[1])
    /\ Len(dmxArg[1]) > 12
    /\ dmx.format = Some("Mp4")

\* C27 as stated: init with a buffer of at least 12 bytes whose bytes 0..3
\* are 0x1A,0x45,0xDF,0xA3 detects Mkv.
C27_EbmlIsMkv ==
    (dmxOp = "init" /\ HasEbmlMagic(dmxArg[1])) => dmx.format = Some("Mkv")

\* C27 amended: init with a buffer of at least 12 bytes whose bytes 0..3 are
\* 0x1A,0x45,0xDF,0xA3 and whose bytes 4..7 are not ftyp succeeds and
\* detects Mkv.
C27_EbmlWithoutFtypIsMkv ==
    (dmxOp = "init" /\ HasEbmlMagic(dmxArg[1]) /\ ~HasFtypTag(dmxArg[1])) =>
        /\ dmxRet.ok
        /\ dmx.initialized
        /\ dmx.format = Some("Mkv")

\* the magic followed by a tag that differs from ftyp in its last byte
C27_Witness ==
    /\ dmxOp = "init"
    /\ HasEbmlMagic(dmxArg[1])
    /\ SubSeq(dmxArg[1], 5, 7) = SubSeq(FtypTag, 1, 3)
    /\ ~HasFtypTag(dmxArg[1])
    /\ dmx.format = Some("Mkv")

\* the buffer has the header length and carries neither magic
HasNoMagic(data) ==
    Len(data) >= 12 /\ ~HasFtypTag(data) /\ ~HasEbmlMagic(data)

\* C28: init with a buffer of at least 12 bytes that carries neither magic
\* succeeds and leaves the demuxer initialized with format Unknown and no
\* streams, and a load of such data returns Ok and reaches Ready.
C28_NoMagicIsUnknownWithoutStreams ==
    /\ (dmxOp = "init" /\ HasNoMagic(dmxArg[1])) =>
           /\ dmxRet.ok
           /\ dmx.initialized
           /\ dmx.format = Some("Unknown")
           /\ dmx.streams = <<>>
    /\ (lastOp = "load" /\ HasNoMagic(lastArg[1])) =>
           /\ result
           /\ player.state = "Ready"

\* C29: init with fewer than 12 bytes, none included, returns an error and
\* leaves the demuxer as it was: initialized, format, streams, data and
\* position are those before the call.
C29_ShortInitFailsUnchanged ==
    (dmxOp = "init" /\ Len(dmxArg[1]) < 12) =>
        /\ ~dmxRet.ok
        /\ dmx.initialized = dmxPre.initialized
        /\ dmx.format = dmxPre.format
        /\ dmx.streams = dmxPre.streams
        /\ dmx.data = dmxPre.data
        /\ dmx.position = dmxPre.position

\* eleven bytes of an ftyp header refused by an initialized demuxer
C29_Witness ==
    /\ dmxOp = "init"
    /\ Len(dmxArg[1]) = 11
    /\ SubSeq(dmxArg[1], 5, 8) = FtypTag
    /\ ~dmxRet.ok
    /\ dmxPre.initialized
    /\ dmxPre.streams # <<>>
    /\ dmx = dmxPre

----------------------------------------------------------------------------
(* Properties of the decoders (spec sections 4.2 and 6). *)

\* the decoder the last method was called on, of the two given
Target(ds) ==
    IF decOp \in {"video.init", "video.decode", "video.flush"}
    THEN ds.video
    ELSE ds.audio

\* C30: decode and flush of either decoder, called before init, return an
\* error and leave the decoder uninitialized; called after init they do not
\* fail for want of initialization: they return Ok or another error.
C30_DecodeFlushNeedInit ==
    decOp \in {"video.decode", "video.flush", "audio.decode", "audio.flush"} =>
        IF Target(decPre).initialized
        THEN decRet.ok \/ decRet.err # NotInitialized
        ELSE /\ ~decRet.ok
             /\ ~Target(decoders).initialized
             /\ decoders = decPre

\* audio.decode of a packet refused before init while the video decoder is
\* initialized
C30_Witness ==
    /\ decOp = "audio.decode"
    /\ decArg[1] # <<>>
    /\ ~decRet.ok
    /\ ~decoders.audio.initialized
    /\ decoders.video.initialized

\* C31: decode of the empty slice, on an initialized decoder of either kind,
\* returns the error "Empty packet data", no frame and no Ok(None), and
\* leaves both decoders as they were.
C31_EmptyPacketIsError ==
    (/\ decOp \in {"video.decode", "audio.decode"}
     /\ Target(decPre).initialized
     /\ decArg[1] = <<>>) =>
        /\ ~decRet.ok
        /\ decRet.err = EmptyPacket
        /\ decRet.frames = <<>>
        /\ decoders = decPre

\* audio.decode of the empty slice refused by the initialized audio decoder
C31_Witness ==
    /\ decOp = "audio.decode"
    /\ decArg[1] = <<>>
    /\ decPre.audio.initialized
    /\ ~decRet.ok
    /\ decRet.err = EmptyPacket
    /\ decoders = decPre

----------------------------------------------------------------------------
(* Properties of the subtitle parser (spec sections 4.4, 6 and 8). *)

\* the format the markers of a text stand for, tested in the order Vtt, Ass,
\* Srt
MarkedFormat(s) ==
    IF starts_with(s, VttMarker) THEN "Vtt"
    ELSE IF starts_with(s, ScriptInfoHeader) \/ contains(s, StylesHeader) THEN "Ass"
    ELSE "Srt"

\* C32 as stated: parse of a text that is not empty returns a track of the
\* format passed by the caller, and without one of the format the markers of
\* the text as given stand for: Vtt when it starts with WEBVTT, otherwise Ass
\* when it starts with [Script Info] or contains [V4+ Styles], otherwise Srt.
C32_DetectionByStartOfInput ==
    (subOp = "parse" /\ subArg[1] # <<>>) =>
        /\ subRet.ok
        /\ subRet.track[1].format = IF subArg[2] # None THEN subArg[2][1]
                                    ELSE MarkedFormat(subArg[1])

\* C32: parse of a text that is not empty returns a track of the format
\* passed by the caller, and without one of the format the markers stand for
\* in the text with the white space at its two ends removed.
C32_DetectionByStartOfTrimmedInput ==
    (subOp = "parse" /\ subArg[1] # <<>>) =>
        /\ subRet.ok
        /\ subRet.track[1].format = IF subArg[2] # None THEN subArg[2][1]
                                    ELSE MarkedFormat(trim(subArg[1]))

\* parse without a format of a text with both the Vtt marker and the Ass
\* styles header, returning a Vtt track
C32_Witness ==
    /\ subOp = "parse"
    /\ subArg = <<VttWithStyles, None>>
    /\ subRet.ok
    /\ subRet.track[1].format = "Vtt"

\* C33: parse_srt_timestamp of HH:MM:SS followed by a comma or a period and
\* mmm returns hours * 3600000 + minutes * 60000 + seconds * 1000 + millis,
\* and of a string that does not have exactly three components between
\* colons, that is exactly two colons, returns None.
C33_TimestampValue ==
    subOp = "parse_srt_timestamp" =>
        /\ \A f \in StampFields :
               subArg[1] = Stamp(f.h, f.m, f.s, f.ms, f.sep) =>
                   subRet = Some(f.h * 3600000 + f.m * 60000 + f.s * 1000 + f.ms)
        /\ Cardinality({i \in 1..Len(subArg[1]) : subArg[1][i] = ":"}) # 2 =>
               subRet = None

\* "01:30:45,123" parsed to 5445123
C33_Witness ==
    /\ subOp = "parse_srt_timestamp"
    /\ subArg[1] = Stamp(1, 30, 45, 123, ",")
    /\ subRet = Some(5445123)

\* C34: parse of a text in the Srt format never returns a track that omits a
\* block: when it returns Ok the track has one cue for every block that is
\* not blank, so a block of fewer than three lines, or one whose timing line
\* does not parse, makes it return an error.
C34_UnparsedBlockIsError ==
    (/\ subOp = "parse"
     /\ subRet.ok
     /\ subRet.track[1].format = "Srt") =>
        cue_count(subRet.track[1])
            = Len(SelectSeq(split(subArg[1], <<"\n", "\n">>), NotBlank))

----------------------------------------------------------------------------
(* Properties of the controller and the components it owns (spec sections    *)
(* 3, 4.5 and 6).                                                            *)

\* C35: once a call of load has returned, with Ok or with an error, the
\* state is not Loading.
C35_LoadingOnlyInsideLoad == lastOp = "load" => player.state # "Loading"

\* C36: after an init of the demuxer that returned Ok, the stream list has
\* exactly one entry when the data is of a recognised container, and none
\* when the format is Unknown: the entries of earlier inits are not kept.
C36_StreamsOfLastInitOnly ==
    (dmxOp = "init" /\ dmxRet.ok) =>
        Len(dmx.streams) = IF dmx.format = Some("Unknown") THEN 0 ELSE 1

\* C37: in Ready, Playing and Paused both decoders of the controller are
\* initialized, and in Idle neither is.
C37_StateAgreesWithDecoders ==
    /\ player.state \in {"Ready", "Playing", "Paused"} =>
           player.video_decoder.initialized /\ player.audio_decoder.initialized
    /\ player.state = "Idle" =>
           ~player.video_decoder.initialized /\ ~player.audio_decoder.initialized

====
